---- MODULE Spec2Model ----
(***************************************************************************)
(* A model of src/unix.rs: the MulticastSocket of the multicast-socket     *)
(* crate.  The kernel's view of the one UDP socket (ksock), the            *)
(* constructor create_on_interfaces walked through one OS call at a time,  *)
(* and the methods receive, send and broadcast called by one thread        *)
(* (Spec) or by two threads sharing the socket (SpecConc).                 *)
(***************************************************************************)
EXTENDS Integers, Sequences, FiniteSets, TLC

(* ----------------------------- bounds ---------------------------------- *)
\* local IPv4 interface addresses are 1..NumAddrs (0 is 0.0.0.0)
NumAddrs == 2
\* longest interface list handed to with_options
MaxIfaces == 2
\* the kernel's interface indices are 1..NumDevices
NumDevices == 2
\* bit width the u32 / i32 of Interface::Index and ipi_ifindex are scaled to
IndexWidth == 3
\* largest buffer_size tried by with_options
MaxBuf == 1
\* longest datagram delivered to receive
MaxPayload == 2

(* ------------------------- program constants --------------------------- *)
DefaultBufferSize == 512
DefaultReadTimeoutMs == 100
UNSPECIFIED == 0

(* ------------------------------ values --------------------------------- *)
Threads == {"t1", "t2"}
\* the one thread of sequential use
Caller == "t1"
Bytes == {0, 1}
LocalAddrs == 1..NumAddrs
Devices == 1..NumDevices
\* the multicast group address and port the caller constructs with
Groups == {[ip |-> "239.1.1.1", port |-> 5000], [ip |-> "239.1.1.2", port |-> 5001]}
OsErrnos == {"ENOBUFS", "EADDRNOTAVAIL"}
RecvErrnos == {"EAGAIN", "EINTR", "ECONNREFUSED"}
None == [tag |-> "None"]

SeqsUpTo(S, n) == UNION {[1..m -> S] : m \in 0..n}
IfaceLists == SeqsUpTo(LocalAddrs, MaxIfaces)
\* what get_if_addrs reports on this host
HostInterfaces == [i \in 1..NumAddrs |-> i]
Payloads == SeqsUpTo(Bytes, MaxPayload)
\* the buffers handed to send and broadcast
SendBufs == {<<>>, <<1>>, <<0, 1>>}
Min(a, b) == IF a <= b THEN a ELSE b
Pow2(n) == 2 ^ n
U32 == 0..(Pow2(IndexWidth) - 1)

\* enum Interface
IfDefault == [tag |-> "Default"]
IfIp(a) == [tag |-> "Ip", addr |-> a]
IfIndex(n) == [tag |-> "Index", index |-> n]
SendInterfaces == {IfDefault} \cup {IfIp(a) : a \in LocalAddrs} \cup {IfIndex(n) : n \in U32}

\* struct MulticastOptions and its Default
MulticastOptions(t, l, b) == [read_timeout |-> t, loopback |-> l, buffer_size |-> b]
DefaultOptions == MulticastOptions(DefaultReadTimeoutMs, FALSE, DefaultBufferSize)
OptionChoices == {MulticastOptions(DefaultReadTimeoutMs, TRUE, b) : b \in 0..MaxBuf}

\* io::Result
Ok(v) == [ok |-> TRUE, val |-> v]
Err(e) == [ok |-> FALSE, err |-> e]
\* io::Error::last_os_error(), as socket2 returns it
OsError(errno) == [repr |-> "Os", code |-> errno]
\* nix::Error::Sys(errno)
NixSys(errno) == [variant |-> "Sys", errno |-> errno]

\* a mutant: the nix error is dropped, io::Error::from(ErrorKind::Other)
nix_to_io_error_drops(e) == [repr |-> "Simple", kind |-> "Other"]
\* fn nix_to_io_error: io::Error::new(ErrorKind::Other, e)
nix_to_io_error(e) == [repr |-> "Custom", kind |-> "Other", error |-> e]

\* `as i32` of a u32, `as u32` of an i32
AsI32(n) == IF n >= Pow2(IndexWidth - 1) THEN n - Pow2(IndexWidth) ELSE n
AsU32(i) == i % Pow2(IndexWidth)

VARIABLES
    openHandles,  \* number of OS handles the process holds open
    ksock,        \* the kernel's state of the socket
    ctor,         \* create_on_interfaces: arguments, program point, result
    ctorlog,      \* the OS calls construction has made, in order
    ms,           \* the MulticastSocket returned to the caller, or None
    pc,           \* per thread: program point inside send / broadcast
    call,         \* per thread: the method being run and its arguments
    trace,        \* per thread: the OS calls of its current (last) method call
    ret           \* per thread: what its last method call returned

vars == <<openHandles, ksock, ctor, ctorlog, ms, pc, call, trace, ret>>
ctorvars == <<openHandles, ksock, ctor, ctorlog, ms>>
threadvars == <<pc, call, trace, ret>>

\* no socket: what the kernel holds before Socket::new and after close
ClosedSock ==
    [open |-> FALSE, read_timeout |-> None, loopback |-> None,
     reuse_address |-> FALSE, reuse_port |-> FALSE, pktinfo |-> FALSE,
     joined |-> <<>>, bound |-> None,
     mcast_if |-> [imr_address |-> UNSPECIFIED, imr_ifindex |-> 0]]

NoCall == [op |-> "none"]

Init ==
    /\ openHandles = 0
    /\ ksock = ClosedSock
    /\ ctor = [pc |-> "start", options |-> None, interfaces |-> <<>>,
               multicast_address |-> None, k |-> 1, result |-> None]
    /\ ctorlog = <<>>
    /\ ms = None
    /\ pc = [t \in Threads |-> "idle"]
    /\ call = [t \in Threads |-> NoCall]
    /\ trace = [t \in Threads |-> <<>>]
    /\ ret = [t \in Threads |-> None]

\* a thread is between two calls
Ready(t) == pc[t] = "idle" /\ call[t] = NoCall

(* --------------------------- construction ------------------------------ *)

\* MulticastSocket::all_interfaces: all_ipv4_interfaces()? gives the host's IPv4
\* addresses or the platform's error, then create_on_interfaces with the defaults
AllInterfaces ==
    /\ ctor.pc = "start"
    /\ \E g \in Groups :
         \/ ctor' = [ctor EXCEPT !.pc = "socket", !.options = DefaultOptions,
                                 !.interfaces = HostInterfaces, !.multicast_address = g]
         \/ \E e \in OsErrnos :
              ctor' = [ctor EXCEPT !.pc = "failed", !.multicast_address = g,
                                   !.result = Err(OsError(e))]
    /\ UNCHANGED <<openHandles, ksock, ctorlog, ms, threadvars>>

\* MulticastSocket::with_options
WithOptions ==
    /\ ctor.pc = "start"
    /\ \E g \in Groups, ifs \in IfaceLists, o \in OptionChoices :
         ctor' = [ctor EXCEPT !.pc = "socket", !.options = o,
                              !.interfaces = ifs, !.multicast_address = g]
    /\ UNCHANGED <<openHandles, ksock, ctorlog, ms, threadvars>>

\* a mutant: bind is done before the joins
AfterStepBindFirst(p) ==
    CASE p = "socket" -> "set_read_timeout"
      [] p = "set_read_timeout" -> "set_multicast_loop_v4"
      [] p = "set_multicast_loop_v4" -> "set_reuse_address"
      [] p = "set_reuse_address" -> "set_reuse_port"
      [] p = "set_reuse_port" -> "Ipv4PacketInfo"
      [] p = "Ipv4PacketInfo" -> "bind"
      [] p = "bind" -> "join"
      [] p = "join" -> "return"
\* a mutant: bind_multicast is never called
AfterStepSkipsBind(p) ==
    CASE p = "socket" -> "set_read_timeout"
      [] p = "set_read_timeout" -> "set_multicast_loop_v4"
      [] p = "set_multicast_loop_v4" -> "set_reuse_address"
      [] p = "set_reuse_address" -> "set_reuse_port"
      [] p = "set_reuse_port" -> "Ipv4PacketInfo"
      [] p = "Ipv4PacketInfo" -> "join"
      [] p = "join" -> "return"
\* the statement that follows statement p in create_on_interfaces
AfterStep(p) ==
    CASE p = "socket" -> "set_read_timeout"
      [] p = "set_read_timeout" -> "set_multicast_loop_v4"
      [] p = "set_multicast_loop_v4" -> "set_reuse_address"
      [] p = "set_reuse_address" -> "set_reuse_port"
      [] p = "set_reuse_port" -> "Ipv4PacketInfo"
      [] p = "Ipv4PacketInfo" -> "join"
      [] p = "join" -> "bind"
      [] p = "bind" -> "return"

\* a mutant: the handle is kept as a raw fd, which an early return does not close
EarlyReturnLeaks(step, e) ==
    /\ ctor' = [ctor EXCEPT !.pc = "failed", !.result = Err(e)]
    /\ ctorlog' = Append(ctorlog, [call |-> step, ok |-> FALSE, err |-> e])
    /\ UNCHANGED <<openHandles, ksock, ms>>
\* the `?` of a failed step: the error is returned and the local `socket` is dropped
EarlyReturn(step, e) ==
    /\ ctor' = [ctor EXCEPT !.pc = "failed", !.result = Err(e)]
    /\ ctorlog' = Append(ctorlog, [call |-> step, ok |-> FALSE, err |-> e])
    /\ ksock' = ClosedSock
    /\ openHandles' = openHandles - 1
    /\ UNCHANGED ms

\* a step that succeeded: the kernel state k and the next statement
Proceed(step, k) ==
    /\ ksock' = k
    /\ ctor' = [ctor EXCEPT !.pc = AfterStep(step)]
    /\ ctorlog' = Append(ctorlog, [call |-> step, ok |-> TRUE])
    /\ UNCHANGED <<openHandles, ms>>

\* Socket::new(Domain::ipv4(), Type::dgram(), Some(Protocol::udp()))?
NewSocket ==
    /\ ctor.pc = "socket"
    /\ \/ /\ ksock' = [ClosedSock EXCEPT !.open = TRUE]
          /\ openHandles' = openHandles + 1
          /\ ctor' = [ctor EXCEPT !.pc = AfterStep("socket")]
          /\ ctorlog' = Append(ctorlog, [call |-> "socket", ok |-> TRUE])
       \/ \E e \in OsErrnos :
            /\ ctor' = [ctor EXCEPT !.pc = "failed", !.result = Err(OsError(e))]
            /\ ctorlog' = Append(ctorlog, [call |-> "socket", ok |-> FALSE, err |-> OsError(e)])
            /\ UNCHANGED <<openHandles, ksock>>
    /\ UNCHANGED <<ms, threadvars>>

\* socket.set_read_timeout(Some(options.read_timeout))?
SetReadTimeout ==
    /\ ctor.pc = "set_read_timeout"
    /\ \/ Proceed("set_read_timeout", [ksock EXCEPT !.read_timeout = ctor.options.read_timeout])
       \/ \E e \in OsErrnos : EarlyReturn("set_read_timeout", OsError(e))
    /\ UNCHANGED threadvars

\* socket.set_multicast_loop_v4(options.loopback)?
SetMulticastLoop ==
    /\ ctor.pc = "set_multicast_loop_v4"
    /\ \/ Proceed("set_multicast_loop_v4", [ksock EXCEPT !.loopback = ctor.options.loopback])
       \/ \E e \in OsErrnos : EarlyReturn("set_multicast_loop_v4", OsError(e))
    /\ UNCHANGED threadvars

\* socket.set_reuse_address(true)?
SetReuseAddress ==
    /\ ctor.pc = "set_reuse_address"
    /\ \/ Proceed("set_reuse_address", [ksock EXCEPT !.reuse_address = TRUE])
       \/ \E e \in OsErrnos : EarlyReturn("set_reuse_address", OsError(e))
    /\ UNCHANGED threadvars

\* socket.set_reuse_port(true)?
SetReusePort ==
    /\ ctor.pc = "set_reuse_port"
    /\ \/ Proceed("set_reuse_port", [ksock EXCEPT !.reuse_port = TRUE])
       \/ \E e \in OsErrnos : EarlyReturn("set_reuse_port", OsError(e))
    /\ UNCHANGED threadvars

\* sock::setsockopt(fd, Ipv4PacketInfo, &true).map_err(nix_to_io_error)?
SetPacketInfo ==
    /\ ctor.pc = "Ipv4PacketInfo"
    /\ \/ Proceed("Ipv4PacketInfo", [ksock EXCEPT !.pktinfo = TRUE])
       \/ \E e \in OsErrnos : EarlyReturn("Ipv4PacketInfo", nix_to_io_error(NixSys(e)))
    /\ UNCHANGED threadvars

\* for interface in &interfaces { socket.join_multicast_v4(group, &interface)?; }
JoinMulticast ==
    /\ ctor.pc = "join"
    /\ IF ctor.k > Len(ctor.interfaces)
       THEN /\ ctor' = [ctor EXCEPT !.pc = AfterStep("join")]
            /\ UNCHANGED <<openHandles, ksock, ctorlog, ms>>
       ELSE \/ /\ ksock' = [ksock EXCEPT !.joined = Append(@, ctor.interfaces[ctor.k])]
               /\ ctor' = [ctor EXCEPT !.k = @ + 1]
               /\ ctorlog' = Append(ctorlog, [call |-> "join", ok |-> TRUE,
                                              interface |-> ctor.interfaces[ctor.k]])
               /\ UNCHANGED <<openHandles, ms>>
            \/ \E e \in OsErrnos : EarlyReturn("join", OsError(e))
    /\ UNCHANGED threadvars

\* fn bind_multicast: socket.bind(&addr), called with the group address
BindMulticast ==
    /\ ctor.pc = "bind"
    /\ \/ Proceed("bind", [ksock EXCEPT !.bound = ctor.multicast_address])
       \/ \E e \in OsErrnos : EarlyReturn("bind", OsError(e))
    /\ UNCHANGED threadvars

\* Ok(MulticastSocket { socket, interfaces, multicast_address, buffer_size })
ReturnSocket ==
    /\ ctor.pc = "return"
    /\ ms' = [interfaces |-> ctor.interfaces,
              multicast_address |-> ctor.multicast_address,
              buffer_size |-> ctor.options.buffer_size]
    /\ ctor' = [ctor EXCEPT !.pc = "done", !.result = Ok("MulticastSocket")]
    /\ UNCHANGED <<openHandles, ksock, ctorlog, threadvars>>

\* the MulticastSocket goes out of scope: its socket2::Socket closes the handle
DropSocket ==
    /\ ms # None
    /\ \A t \in Threads : Ready(t)
    /\ ms' = None
    /\ ksock' = ClosedSock
    /\ openHandles' = openHandles - 1
    /\ ctor' = [ctor EXCEPT !.pc = "dropped"]
    /\ UNCHANGED <<ctorlog, threadvars>>

(* ------------------------------- send ---------------------------------- *)

\* a mutant: every variant selects the unspecified address
MulticastIfRequestUnspecified(interface) ==
    [opt |-> "set_multicast_if_v4", imr_address |-> UNSPECIFIED, imr_ifindex |-> 0]
\* the match of send: the option set for each variant of Interface, with the
\* ip_mreqn the kernel gets (ProtoMulticastIfIndex::set zeroes it and stores
\* `*val as i32` in imr_ifindex)
MulticastIfRequest(interface) ==
    CASE interface.tag = "Default" ->
           [opt |-> "set_multicast_if_v4", imr_address |-> UNSPECIFIED, imr_ifindex |-> 0]
      [] interface.tag = "Ip" ->
           [opt |-> "set_multicast_if_v4", imr_address |-> interface.addr, imr_ifindex |-> 0]
      [] interface.tag = "Index" ->
           [opt |-> "ProtoMulticastIfIndex", imr_address |-> UNSPECIFIED,
            imr_ifindex |-> AsI32(interface.index)]

\* IP_MULTICAST_IF names an interface of the host, or none (index 0, address 0.0.0.0)
KernelAccepts(req) ==
    /\ req.imr_ifindex \in {0} \cup Devices
    /\ req.imr_address \in {UNSPECIFIED} \cup LocalAddrs

\* the error of a failed option set: socket2's io::Error, or the nix error mapped
SetIfError(req, e) ==
    IF req.opt = "ProtoMulticastIfIndex" THEN nix_to_io_error(NixSys(e)) ELSE OsError(e)

\* a method returns r to its caller
Return(t, r) ==
    /\ ret' = [ret EXCEPT ![t] = r]
    /\ pc' = [pc EXCEPT ![t] = "idle"]
    /\ UNCHANGED call

\* a mutant: the result of send is ignored, `let _ = self.send(..)`
BroadcastLoopIgnoresError(t, r) ==
    IF call[t].k < Len(ms.interfaces)
    THEN /\ call' = [call EXCEPT ![t].k = @ + 1,
                                 ![t].interface = IfIp(ms.interfaces[call[t].k + 1])]
         /\ pc' = [pc EXCEPT ![t] = "set_if"]
         /\ UNCHANGED ret
    ELSE Return(t, Ok("unit"))
\* broadcast's loop after send number k returned r: `?`, the next interface, or Ok(())
BroadcastLoop(t, r) ==
    IF ~r.ok
    THEN Return(t, r)
    ELSE IF call[t].k < Len(ms.interfaces)
         THEN /\ call' = [call EXCEPT ![t].k = @ + 1,
                                      ![t].interface = IfIp(ms.interfaces[call[t].k + 1])]
              /\ pc' = [pc EXCEPT ![t] = "set_if"]
              /\ UNCHANGED ret
         ELSE Return(t, Ok("unit"))

\* send returns r: to the caller, or into broadcast's loop
SendReturns(t, r) ==
    IF call[t].op = "broadcast" THEN BroadcastLoop(t, r) ELSE Return(t, r)

\* the caller takes the value its last call returned
TakeResult(t) ==
    /\ pc[t] = "idle"
    /\ call[t] # NoCall
    /\ call' = [call EXCEPT ![t] = NoCall]
    /\ trace' = [trace EXCEPT ![t] = <<>>]
    /\ ret' = [ret EXCEPT ![t] = None]
    /\ UNCHANGED <<pc, ctorvars>>

\* a thread calls send(buf, interface)
CallSend(t, bufs, ifaces) ==
    /\ ms # None
    /\ Ready(t)
    /\ \E buf \in bufs, i \in ifaces :
         call' = [call EXCEPT ![t] = [op |-> "send", buf |-> buf, interface |-> i, k |-> 0]]
    /\ pc' = [pc EXCEPT ![t] = "set_if"]
    /\ trace' = [trace EXCEPT ![t] = <<>>]
    /\ ret' = [ret EXCEPT ![t] = None]
    /\ UNCHANGED ctorvars

\* a thread calls broadcast(buf)
CallBroadcast(t, bufs) ==
    /\ ms # None
    /\ Ready(t)
    /\ trace' = [trace EXCEPT ![t] = <<>>]
    /\ \E buf \in bufs :
         IF ms.interfaces = <<>>
         THEN /\ call' = [call EXCEPT ![t] = [op |-> "broadcast", buf |-> buf,
                                              interface |-> None, k |-> 0]]
              /\ ret' = [ret EXCEPT ![t] = Ok("unit")]
              /\ UNCHANGED pc
         ELSE /\ call' = [call EXCEPT ![t] = [op |-> "broadcast", buf |-> buf,
                                              interface |-> IfIp(ms.interfaces[1]), k |-> 1]]
              /\ ret' = [ret EXCEPT ![t] = None]
              /\ pc' = [pc EXCEPT ![t] = "set_if"]
    /\ UNCHANGED ctorvars

\* the match of send: set_multicast_if_v4(..)? or setsockopt(fd, ProtoMulticastIfIndex, index)?
SetMulticastIf(t) ==
    /\ pc[t] = "set_if"
    /\ LET req == MulticastIfRequest(call[t].interface) IN
         \/ /\ KernelAccepts(req)
            /\ ksock' = [ksock EXCEPT !.mcast_if = [imr_address |-> req.imr_address,
                                                    imr_ifindex |-> req.imr_ifindex]]
            /\ trace' = [trace EXCEPT ![t] = Append(@, [call |-> req.opt, req |-> req,
                                                          was |-> ksock.mcast_if, ok |-> TRUE])]
            /\ pc' = [pc EXCEPT ![t] = "send_to"]
            /\ UNCHANGED <<call, ret>>
         \/ \E e \in (IF KernelAccepts(req) THEN OsErrnos ELSE {"EADDRNOTAVAIL"}) :
              /\ trace' = [trace EXCEPT ![t] = Append(@, [call |-> req.opt, req |-> req,
                                                          was |-> ksock.mcast_if, ok |-> FALSE,
                                                          err |-> SetIfError(req, e)])]
              /\ SendReturns(t, Err(SetIfError(req, e)))
              /\ UNCHANGED ksock
    /\ UNCHANGED <<openHandles, ctor, ctorlog, ms>>

\* self.socket.send_to(buf, &self.multicast_address): the datagram leaves by the
\* interface the socket's IP_MULTICAST_IF names at this moment (egress); the
\* entry also notes the interface argument of the send that writes
SendTo(t) ==
    /\ pc[t] = "send_to"
    /\ \/ /\ trace' = [trace EXCEPT ![t] = Append(@, [call |-> "send_to", buf |-> call[t].buf,
                           interface |-> call[t].interface, dest |-> ms.multicast_address, egress |-> ksock.mcast_if, ok |-> TRUE])]
          /\ SendReturns(t, Ok(Len(call[t].buf)))
       \/ \E e \in OsErrnos :
            /\ trace' = [trace EXCEPT ![t] = Append(@, [call |-> "send_to", buf |-> call[t].buf,
                           interface |-> call[t].interface, dest |-> ms.multicast_address, egress |-> ksock.mcast_if, ok |-> FALSE,
                           err |-> OsError(e)])]
            /\ SendReturns(t, Err(OsError(e)))
    /\ UNCHANGED ctorvars

(* ------------------------------ receive -------------------------------- *)

\* what recvmsg reports as msg_name: nothing, an AF_INET address, another family
SenderAddrs == {[ip |-> 1, port |-> 5000], [ip |-> 7, port |-> 40000]}
AddressReports ==
    {None} \cup {[family |-> "Inet", v |-> "V4", ip |-> a.ip, port |-> a.port] : a \in SenderAddrs}
           \cup {[family |-> "Inet", v |-> "V6"], [family |-> "Unix"]}
\* the control messages: the buffer of cmsg_space!(in_pktinfo) holds at most one
CmsgReports ==
    {<<>>} \cup {<<[kind |-> "Ipv4PacketInfo", ipi_ifindex |-> i]>> : i \in Devices}
           \cup {<<[kind |-> "Other"]>>}

\* vec![0; n]
Zeroes(n) == [i \in 1..n |-> 0]

\* recvmsg into one iovec: the kernel copies what fits and reports that many bytes
Recvmsg(buffer, payload) ==
    LET n == Min(Len(payload), Len(buffer)) IN
      [bytes |-> n,
       buffer |-> [i \in 1..Len(buffer) |-> IF i <= n THEN payload[i] ELSE buffer[i]]]

\* a mutant: the sender address is unwrapped
OriginAddressUnwraps(address) ==
    IF address # None /\ address.family = "Inet" /\ address.v = "V4"
    THEN [ip |-> address.ip, port |-> address.port]
    ELSE [panic |-> "unwrap on None"]
\* the two matches on message.address: InetAddr::to_std, then V4 or 0.0.0.0:0
OriginAddress(address) ==
    LET std == IF address # None /\ address.family = "Inet"
               THEN [some |-> TRUE, v |-> address.v, a |-> address]
               ELSE [some |-> FALSE]
    IN IF std.some /\ std.v = "V4"
       THEN [ip |-> std.a.ip, port |-> std.a.port]
       ELSE [ip |-> UNSPECIFIED, port |-> 0]

\* the loop over message.cmsgs(): the last Ipv4PacketInfo decides
RECURSIVE ScanCmsgs(_, _)
ScanCmsgs(cmsgs, interface) ==
    IF cmsgs = <<>> THEN interface
    ELSE ScanCmsgs(Tail(cmsgs),
                   IF Head(cmsgs).kind = "Ipv4PacketInfo"
                   THEN IfIndex(AsU32(Head(cmsgs).ipi_ifindex))
                   ELSE interface)

\* a mutant: the control messages are not read
ArrivalInterfaceIgnoresCmsgs(cmsgs) == IfDefault
\* let mut interface = Interface::Default; for cmsg in message.cmsgs() { .. }
ArrivalInterface(cmsgs) == ScanCmsgs(cmsgs, IfDefault)

\* a mutant: the whole buffer is returned, data_buffer.to_vec()
MessageDataWholeBuffer(buffer, bytes) == buffer
\* data_buffer[0..message.bytes].to_vec()
MessageData(buffer, bytes) == SubSeq(buffer, 1, bytes)

\* MulticastSocket::receive, one recvmsg: an errno, or a datagram with its
\* sender address and control messages
Receive(t) ==
    /\ ms # None
    /\ Ready(t)
    /\ call' = [call EXCEPT ![t] = [op |-> "receive"]]
    /\ \/ \E e \in RecvErrnos :
            /\ trace' = [trace EXCEPT ![t] = <<[call |-> "recvmsg", ok |-> FALSE, errno |-> e]>>]
            /\ ret' = [ret EXCEPT ![t] = Err(nix_to_io_error(NixSys(e)))]
       \/ \E payload \in Payloads, address \in AddressReports, cmsgs \in CmsgReports :
            LET message == Recvmsg(Zeroes(ms.buffer_size), payload) IN
              /\ trace' = [trace EXCEPT ![t] = <<[call |-> "recvmsg", ok |-> TRUE,
                                payload |-> payload, address |-> address, cmsgs |-> cmsgs]>>]
              /\ ret' = [ret EXCEPT ![t] = Ok([data |-> MessageData(message.buffer, message.bytes),
                                               origin_address |-> OriginAddress(address),
                                               interface |-> ArrivalInterface(cmsgs)])]
    /\ UNCHANGED <<pc, ctorvars>>

Construct ==
    \/ AllInterfaces \/ WithOptions \/ NewSocket \/ SetReadTimeout \/ SetMulticastLoop
    \/ SetReuseAddress \/ SetReusePort \/ SetPacketInfo \/ JoinMulticast
    \/ BindMulticast \/ ReturnSocket

Send == CallSend(Caller, SendBufs, SendInterfaces)
Broadcast == CallBroadcast(Caller, SendBufs)
SendStep == SetMulticastIf(Caller) \/ SendTo(Caller)

ReceiveCall == Receive(Caller)
Returned == TakeResult(Caller)

\* two threads share the socket (&self methods of a Sync value), each sending
\* from an interface address or the default
ConcBufs == {<<1>>}
ConcInterfaces == {IfDefault} \cup {IfIp(a) : a \in LocalAddrs}
ConcSend == \E t \in Threads : CallSend(t, ConcBufs, ConcInterfaces)
ConcBroadcast == \E t \in Threads : CallBroadcast(t, ConcBufs)
ConcSetMulticastIf == \E t \in Threads : SetMulticastIf(t)
ConcSendTo == \E t \in Threads : SendTo(t)
ConcReturned == \E t \in Threads : TakeResult(t)

Next == Construct \/ DropSocket \/ Send \/ Broadcast \/ SendStep \/ ReceiveCall \/ Returned
Spec == Init /\ [][Next]_vars

NextConc ==
    \/ Construct \/ DropSocket \/ ConcSend \/ ConcBroadcast
    \/ ConcSetMulticastIf \/ ConcSendTo \/ ConcReturned
SpecConc == Init /\ [][NextConc]_vars

(* ------------------------------ claims --------------------------------- *)

IsSetIf(e) == e.call \in {"set_multicast_if_v4", "ProtoMulticastIfIndex"}
IsWrite(e) == e.call = "send_to"
\* one entry per send call (its option set comes first), and the writes
Attempts(tr) == SelectSeq(tr, IsSetIf)
Writes(tr) == SelectSeq(tr, IsWrite)
\* only the last OS call of a method call may have failed
FailureIsLast(tr) == \A i \in 1..(Len(tr) - 1) : tr[i].ok
Last(tr) == tr[Len(tr)]

\* the IP_MULTICAST_IF setting Interface i asks for
ExpectedEgress(i) ==
    CASE i.tag = "Default" -> [imr_address |-> UNSPECIFIED, imr_ifindex |-> 0]
      [] i.tag = "Ip" -> [imr_address |-> i.addr, imr_ifindex |-> 0]
      [] i.tag = "Index" -> [imr_address |-> UNSPECIFIED, imr_ifindex |-> i.index]

\* C1: broadcast(buf) on interfaces [i1..in] sends buf to the group once per
\* interface, in list order, as send(buf, Ip(ik)); it returns Ok only when all n
\* sends succeeded; a failing send is the last one attempted and its error is
\* the one returned, the earlier sends staying done.
C1_BroadcastInOrder ==
    call[Caller].op = "broadcast" =>
      LET tr == trace[Caller]
          ifs == ms.interfaces
          at == Attempts(tr)
          wr == Writes(tr)
      IN /\ FailureIsLast(tr)
         /\ Len(at) <= Len(ifs)
         /\ Len(wr) <= Len(at) /\ Len(at) <= Len(wr) + 1
         /\ \A j \in 1..Len(at) :
              /\ at[j].call = "set_multicast_if_v4"
              /\ at[j].req.imr_address = ifs[j]
         /\ \A j \in 1..Len(wr) :
              /\ wr[j].buf = call[Caller].buf
              /\ wr[j].dest = ctor.multicast_address
              /\ wr[j].interface = IfIp(ifs[j])
         /\ (pc[Caller] = "idle" /\ ret[Caller].ok) =>
              /\ ret[Caller] = Ok("unit")
              /\ Len(wr) = Len(ifs) /\ Len(at) = Len(ifs)
              /\ \A i \in 1..Len(tr) : tr[i].ok
         /\ (pc[Caller] = "idle" /\ ~ret[Caller].ok) =>
              /\ tr # <<>> /\ ~Last(tr).ok
              /\ ret[Caller] = Err(Last(tr).err)
         /\ (tr # <<>> /\ ~Last(tr).ok) => pc[Caller] = "idle" /\ ~ret[Caller].ok
\* interfaces [A, B]: the send on A was written, the send on B failed, B's error is returned
C1_Witness ==
    /\ call[Caller].op = "broadcast" /\ pc[Caller] = "idle"
    /\ Len(ms.interfaces) = 2 /\ ms.interfaces[1] # ms.interfaces[2]
    /\ Len(Writes(trace[Caller])) = 1 /\ Len(Attempts(trace[Caller])) = 2
    /\ ~ret[Caller].ok

\* the OS calls create_on_interfaces makes on an interface list, in order
ConstructionOrder(ifs) ==
    <<"socket", "set_read_timeout", "set_multicast_loop_v4", "set_reuse_address",
      "set_reuse_port", "Ipv4PacketInfo">> \o [k \in 1..Len(ifs) |-> "join"] \o <<"bind">>
JoinedBy(log) == SelectSeq(log, LAMBDA e : e.call = "join" /\ e.ok)

\* C2: construction makes its OS calls in the order socket, read timeout,
\* loopback, reuse-address, reuse-port, packet info, one join per interface in
\* list order, bind; the first call that fails is the last one made, its error
\* is the result, and no MulticastSocket is returned.
C2_ConstructionOrder ==
    LET order == ConstructionOrder(ctor.interfaces)
        joins == JoinedBy(ctorlog)
    IN /\ Len(ctorlog) <= Len(order)
       /\ \A i \in 1..Len(ctorlog) : ctorlog[i].call = order[i]
       /\ \A j \in 1..Len(joins) : joins[j].interface = ctor.interfaces[j]
       /\ FailureIsLast(ctorlog)
       /\ (ctorlog # <<>> /\ ~Last(ctorlog).ok) =>
            /\ ctor.pc = "failed"
            /\ ctor.result = Err(Last(ctorlog).err)
            /\ ms = None
       /\ ctor.pc = "failed" => ms = None /\ ~ctor.result.ok
       /\ ctor.pc = "done" =>
            /\ Len(ctorlog) = Len(order)
            /\ Last(ctorlog).ok
            /\ ctor.result.ok
       /\ ms # None => ctor.pc = "done"
\* the second of two joins failed: bind was never called and nothing is returned
C2_Witness ==
    /\ ctor.pc = "failed"
    /\ Len(ctor.interfaces) = 2
    /\ Len(ctorlog) = 8 /\ Last(ctorlog).call = "join" /\ ~Last(ctorlog).ok

\* C3: while the socket exists, a send or receive that succeeded ran on a
\* socket bound to the group address and joined on every interface of the list,
\* and the list, the group address and port and buffer_size are the ones given
\* at construction.
C3_BoundJoinedImmutable ==
    ms # None =>
      /\ ms.interfaces = ctor.interfaces
      /\ ms.multicast_address = ctor.multicast_address
      /\ ms.buffer_size = ctor.options.buffer_size
      /\ \A t \in Threads :
           (call[t].op \in {"send", "receive"} /\ pc[t] = "idle" /\ ret[t].ok) =>
             /\ ksock.open
             /\ ksock.bound = ms.multicast_address
             /\ ksock.joined = ms.interfaces
\* a send succeeded on a socket joined on two interfaces
C3_Witness ==
    /\ ms # None /\ Len(ms.interfaces) = 2
    /\ call[Caller].op = "send" /\ pc[Caller] = "idle" /\ ret[Caller].ok
    /\ ksock.joined = ms.interfaces /\ ksock.bound = ms.multicast_address

\* C4: in sequential use every write of a send (called directly or by
\* broadcast) comes right after the successful option set for that send's
\* interface, and the egress setting in effect at the write is the one this
\* interface asks for; the write carries the buffer to the group address and
\* port; a failed option set is returned with nothing written; a successful
\* send returns the number of bytes written.
C4_EgressSetBeforeWrite ==
    /\ \A j \in 1..Len(trace[Caller]) :
         IsWrite(trace[Caller][j]) =>
           /\ j > 1 /\ IsSetIf(trace[Caller][j - 1]) /\ trace[Caller][j - 1].ok
           /\ trace[Caller][j - 1].req = [opt |-> trace[Caller][j - 1].call,
                  imr_address |-> ExpectedEgress(trace[Caller][j].interface).imr_address,
                  imr_ifindex |-> ExpectedEgress(trace[Caller][j].interface).imr_ifindex]
           /\ trace[Caller][j].egress = ExpectedEgress(trace[Caller][j].interface)
           /\ trace[Caller][j].dest = ctor.multicast_address
    /\ call[Caller].op = "send" =>
      LET tr == trace[Caller]
          i == call[Caller].interface
      IN /\ Len(tr) <= 2
         /\ \A j \in 1..Len(tr) :
              IsWrite(tr[j]) =>
                /\ j = 2 /\ IsSetIf(tr[1]) /\ tr[1].ok
                /\ tr[j].egress = ExpectedEgress(i)
                /\ tr[j].dest = ctor.multicast_address
                /\ tr[j].buf = call[Caller].buf
         /\ (tr # <<>>) =>
              /\ IsSetIf(tr[1])
              /\ tr[1].call = (IF i.tag = "Index" THEN "ProtoMulticastIfIndex"
                                                  ELSE "set_multicast_if_v4")
         /\ (tr # <<>> /\ ~tr[1].ok) =>
              /\ Len(tr) = 1
              /\ pc[Caller] = "idle" /\ ret[Caller] = Err(tr[1].err)
         /\ (pc[Caller] = "idle" /\ ret[Caller].ok) =>
              /\ Len(tr) = 2 /\ tr[2].ok
              /\ ret[Caller].val = Len(call[Caller].buf)
         /\ (pc[Caller] = "idle" /\ ~ret[Caller].ok) =>
              ret[Caller] = Err(Last(tr).err)
\* a send by index wrote while the option still held another interface before it
C4_Witness ==
    /\ call[Caller].op = "send" /\ pc[Caller] = "idle" /\ ret[Caller].ok
    /\ call[Caller].interface.tag = "Index"
    /\ trace[Caller][1].was.imr_address # UNSPECIFIED
    /\ trace[Caller][2].egress = [imr_address |-> UNSPECIFIED,
                                  imr_ifindex |-> call[Caller].interface.index]

\* the errno an io::Error lets its receiver recover, "" when it carries none
ErrnoOf(err) ==
    CASE err.repr = "Os" -> err.code
      [] err.repr = "Custom" -> IF err.error.variant = "Sys" THEN err.error.errno ELSE ""
      [] OTHER -> ""
\* the errno recvmsg gives when SO_RCVTIMEO expires
IsTimeout(err) == ErrnoOf(err) = "EAGAIN"

\* C5: the error receive returns carries the errno recvmsg failed with: it
\* names the timeout exactly when the read timed out, and any other failure
\* keeps its own code.
C5_TimeoutDistinguishable ==
    (call[Caller].op = "receive" /\ ~trace[Caller][1].ok) =>
      /\ ~ret[Caller].ok
      /\ ErrnoOf(ret[Caller].err) = trace[Caller][1].errno
      /\ IsTimeout(ret[Caller].err) <=> trace[Caller][1].errno = "EAGAIN"
\* a read that timed out
C5_Witness ==
    /\ call[Caller].op = "receive"
    /\ ~trace[Caller][1].ok /\ trace[Caller][1].errno = "EAGAIN"
    /\ ~ret[Caller].ok /\ IsTimeout(ret[Caller].err)

\* C6: a successful receive of a datagram with payload P on a socket with
\* buffer size B returns the first min(|P|, B) bytes of P and nothing else.
C6_DataIsPayloadPrefix ==
    (call[Caller].op = "receive" /\ trace[Caller][1].ok) =>
      LET P == trace[Caller][1].payload
          B == ctor.options.buffer_size
      IN /\ ret[Caller].ok
         /\ ret[Caller].val.data = SubSeq(P, 1, Min(Len(P), B))
         /\ Len(ret[Caller].val.data) <= B
\* a datagram longer than the buffer came back cut to the buffer size
C6_Witness ==
    /\ call[Caller].op = "receive" /\ trace[Caller][1].ok
    /\ ctor.options.buffer_size = 1
    /\ Len(trace[Caller][1].payload) = 2
    /\ ret[Caller].ok /\ Len(ret[Caller].val.data) = 1

PacketInfos(cmsgs) == SelectSeq(cmsgs, LAMBDA c : c.kind = "Ipv4PacketInfo")

\* C7: the interface of a received Message is Index(n), n the interface index
\* of the packet-info record of the datagram, or Default when the datagram has
\* no such record; never Ip.
C7_ArrivalInterface ==
    (call[Caller].op = "receive" /\ trace[Caller][1].ok) =>
      LET infos == PacketInfos(trace[Caller][1].cmsgs) IN
        /\ ret[Caller].ok
        /\ ret[Caller].val.interface.tag # "Ip"
        /\ infos # <<>> => ret[Caller].val.interface = IfIndex(infos[1].ipi_ifindex)
        /\ infos = <<>> => ret[Caller].val.interface = IfDefault
\* a datagram that arrived on interface 2
C7_Witness ==
    /\ call[Caller].op = "receive" /\ trace[Caller][1].ok
    /\ trace[Caller][1].cmsgs = <<[kind |-> "Ipv4PacketInfo", ipi_ifindex |-> 2]>>
    /\ ret[Caller].ok /\ ret[Caller].val.interface = IfIndex(2)

\* C8: the process holds one handle exactly while the socket is open, and none
\* once construction has failed at any step or the returned socket is dropped.
C8_NoHandleLeak ==
    /\ openHandles = (IF ksock.open THEN 1 ELSE 0)
    /\ ctor.pc \in {"start", "socket", "failed", "dropped"} => openHandles = 0
\* construction failed at a join after an earlier join had succeeded
C8_Witness ==
    /\ ctor.pc = "failed" /\ openHandles = 0
    /\ ctorlog # <<>> /\ Last(ctorlog).call = "join" /\ ~Last(ctorlog).ok
    /\ JoinedBy(ctorlog) # <<>>

IsV4(address) == address # None /\ address.family = "Inet" /\ address.v = "V4"

\* C9: a read that succeeded returns a Message: with the sender's address and
\* port when the OS reported an IPv4 sender, with 0.0.0.0:0 when it did not.
C9_OriginAddress ==
    (call[Caller].op = "receive" /\ trace[Caller][1].ok) =>
      LET a == trace[Caller][1].address IN
        /\ ret[Caller].ok
        /\ IsV4(a) => ret[Caller].val.origin_address = [ip |-> a.ip, port |-> a.port]
        /\ ~IsV4(a) => ret[Caller].val.origin_address = [ip |-> 0, port |-> 0]
\* the OS reported no sender address
C9_Witness ==
    /\ call[Caller].op = "receive" /\ trace[Caller][1].ok
    /\ trace[Caller][1].address = None
    /\ ret[Caller].ok /\ ret[Caller].val.origin_address = [ip |-> 0, port |-> 0]

\* C10: with two threads sending on the same socket, every datagram written
\* leaves by the interface its own send call selected.
C10_OwnEgressAtWrite ==
    \A t \in Threads :
      \A j \in 1..Len(trace[t]) :
        (IsWrite(trace[t][j]) /\ trace[t][j].ok) =>
          trace[t][j].egress = ExpectedEgress(trace[t][j].interface)
====
